---------------------------- MODULE Spec2Model ----------------------------
(***************************************************************************)
(* A model of geometry/geometry.py: the value types Point, Vector and Line *)
(* and the free functions over them.                                       *)
(*                                                                         *)
(* Coordinates are Python floats.  The model keeps the structure of binary *)
(* floating point (a Prec-bit significand, gradual underflow, round to     *)
(* nearest even, overflow to infinity, NaN) in a format narrow enough to   *)
(* enumerate.  A finite float is the integer number of smallest subnormal  *)
(* steps it holds, so 1.0 is 2^Frac; Inf, -Inf and NaN are integers        *)
(* outside the finite range.  The sign of zero is not kept: no operation   *)
(* of the library tells 0.0 from -0.0.                                     *)
(***************************************************************************)
EXTENDS Integers, Sequences, FiniteSets

\* ------------------------------------------------------------------ bounds
\* Prec: the bits of a significand.  Frac: the smallest positive float is
\* 2^-Frac.  MaxExp: every finite float is below 2^MaxExp.
Prec == 5
Frac == 5
MaxExp == 8
MaxInt == 1

\* No operation of the library takes more than two objects.
MaxOperands == 2

\* ------------------------------------------------------------ float format
RECURSIVE Pow2(_)
Pow2(n) == IF n <= 0 THEN 1 ELSE 2 * Pow2(n - 1)

One == Pow2(Frac)
MaxFinite == (Pow2(Prec) - 1) * Pow2(Frac + MaxExp - Prec)
Inf == MaxFinite + 1
NaN == MaxFinite + 2
Finite == (-MaxFinite)..MaxFinite

IsNaN(x) == x = NaN
IsInf(x) == x = Inf \/ x = -Inf
IsFin(x) == x \in Finite
Abs(x) == IF x < 0 THEN -x ELSE x
Sign(x) == IF x < 0 THEN -1 ELSE 1

TwoPrec == Pow2(Prec)

\* The exponent of the quantum that num/den (>= 0) is rounded to: the least
\* k >= 0 with num/den < 2^(Prec+k); t is 2^(Prec+k) * den.
RECURSIVE QuantumExp(_, _, _)
QuantumExp(num, t, k) == IF num < t THEN k ELSE QuantumExp(num, 2 * t, k + 1)

\* num/den >= 0 rounded to the nearest float, ties to the even significand.
RoundPos(num, den) ==
    LET k == QuantumExp(num, TwoPrec * den, 0)
        p == Pow2(k)
        q == den * p
        m == num \div q
        r == num % q
        up == 2 * r > q \/ (2 * r = q /\ m % 2 = 1)
        v == (IF up THEN m + 1 ELSE m) * p
    IN  IF v > MaxFinite THEN Inf ELSE v

Round(num, den) == IF num < 0 THEN -RoundPos(-num, den) ELSE RoundPos(num, den)

\* ---------------------------------------------------------- float operators
\* -x
FNeg(x) == IF IsNaN(x) THEN NaN ELSE -x

\* x + y
FAdd(x, y) ==
    IF IsNaN(x) \/ IsNaN(y) THEN NaN
    ELSE IF IsInf(x) /\ IsInf(y) THEN (IF x = y THEN x ELSE NaN)
    ELSE IF IsInf(x) THEN x
    ELSE IF IsInf(y) THEN y
    ELSE Round(x + y, 1)

\* x - y
FSub(x, y) == FAdd(x, FNeg(y))

\* x * y
FMul(x, y) ==
    IF IsNaN(x) \/ IsNaN(y) THEN NaN
    ELSE IF IsInf(x) \/ IsInf(y)
         THEN (IF x = 0 \/ y = 0 THEN NaN ELSE Sign(x) * Sign(y) * Inf)
    ELSE Round(x * y, One)

\* x / y.  Every division of the library follows a test that y is not zero
\* (Python raises ZeroDivisionError there); NaN stands for that outcome.
FDiv(x, y) ==
    IF IsNaN(x) \/ IsNaN(y) \/ y = 0 THEN NaN
    ELSE IF IsInf(x) THEN (IF IsInf(y) THEN NaN ELSE Sign(x) * Sign(y) * Inf)
    ELSE IF IsInf(y) THEN 0
    ELSE Round(Sign(y) * x * One, Abs(y))

\* Python's x == y on floats: NaN equals nothing.
FEq(x, y) == ~IsNaN(x) /\ ~IsNaN(y) /\ x = y

\* abs(x)
FAbs(x) == IF IsNaN(x) THEN NaN ELSE Abs(x)

\* floor(sqrt(n)) by bisection on lo <= sqrt(n) < hi.
RECURSIVE ISqrt(_, _, _)
ISqrt(n, lo, hi) ==
    IF hi - lo <= 1 THEN lo
    ELSE LET mid == (lo + hi) \div 2
         IN  IF mid * mid <= n THEN ISqrt(n, mid, hi) ELSE ISqrt(n, lo, mid)

\* sqrt(n) for an integer n >= 0, rounded to the nearest float.
RoundSqrt(n) ==
    LET s == ISqrt(n, 0, 2 * MaxFinite + 2)
        k == QuantumExp(s, TwoPrec, 0)
        q == Pow2(k)
        m == s \div q
        h == IF k = 0 THEN 0 ELSE (2 * m + 1) * Pow2(k - 1)
        up == IF k = 0 THEN n > m * m + m
              ELSE n > h * h \/ (n = h * h /\ m % 2 = 1)
        v == (IF up THEN m + 1 ELSE m) * q
    IN  IF v > MaxFinite THEN Inf ELSE v

\* math.hypot(x, y): no intermediate overflow or underflow.
Hypot(x, y) ==
    IF IsInf(x) \/ IsInf(y) THEN Inf
    ELSE IF IsNaN(x) \/ IsNaN(y) THEN NaN
    ELSE RoundSqrt(x * x + y * y)

\* math.isclose(x, 0.0, abs_tol=tol).  The default rel_tol term is
\* 1e-9 * |x|, below |x| for every nonzero x, so only abs_tol decides.
IsCloseZero(x, tol) == IsFin(x) /\ Abs(x) <= tol

\* float(x) of a value that already is a float.
ToFloat(x) == IF IsFin(x) THEN Round(x, 1) ELSE x


\* ------------------------------------------------------------ Python values
\* None, as a value no float equals.
None == MaxFinite + 3

\* None where an object is expected (Line.intersection): a record, as the
\* objects are.
NoneObj == [type |-> "NoneType"]

\* What a call gives back: the value it returns, or the exception it raises.
Return(v) == [err |-> "", val |-> v]
Raise(e) == [err |-> e, val |-> None]
Raised(r) == r.err # ""

IsPoint(o) == o.type = "Point"
IsVector(o) == o.type = "Vector"
IsLine(o) == o.type = "Line"

\* abs_tol of Line.contains (1e-9) and of Line.intersection (1e-12), at the
\* model format's scale: above the rounding step of 1.0, below 1.0, the
\* second below the first.
ContainsTol == One \div 4
IntersectionTol == One \div 8

\* ------------------------------------------------------------------- Vector
Vector_init(x, y) == [type |-> "Vector", x |-> ToFloat(x), y |-> ToFloat(y)]

\* ------------------------------------------------------------------- Point
Point_init(x, y) == [type |-> "Point", x |-> ToFloat(x), y |-> ToFloat(y)]

Point_as_tuple(self) == <<self.x, self.y>>

Point_distance_to(self, other) ==
    Hypot(FSub(self.x, other.x), FSub(self.y, other.y))

Point_midpoint(self, other) ==
    Point_init(FDiv(FAdd(self.x, other.x), 2 * One),
               FDiv(FAdd(self.y, other.y), 2 * One))

Point_translate(self, dx, dy) == Point_init(FAdd(self.x, dx), FAdd(self.y, dy))

Point_to_vector(self) == Vector_init(self.x, self.y)

Point_reflect_x(self) == Point_init(self.x, FNeg(self.y))

Point_reflect_y(self) == Point_init(FNeg(self.x), self.y)

Point_reflect_origin(self) == Point_init(FNeg(self.x), FNeg(self.y))

Point_reflect_across_line(self, line) ==
    LET x == self.x
        y == self.y
        a == line.a
        b == line.b
        c == line.c
        d == FAdd(FMul(a, a), FMul(b, b))
        k == FDiv(FAdd(FAdd(FMul(a, x), FMul(b, y)), c), d)
        xr == FSub(x, FMul(FMul(2 * One, a), k))
        yr == FSub(y, FMul(FMul(2 * One, b), k))
    IN  IF FEq(d, 0) THEN Raise("ValueError: Invalid line")
        ELSE Return(Point_init(xr, yr))

\* ------------------------------------------------------------------- Vector
Vector_as_tuple(self) == <<self.x, self.y>>

Vector_add(self, other) ==
    Vector_init(FAdd(self.x, other.x), FAdd(self.y, other.y))

Vector_sub(self, other) ==
    Vector_init(FSub(self.x, other.x), FSub(self.y, other.y))

Vector_scale(self, k) == Vector_init(FMul(self.x, k), FMul(self.y, k))

Vector_dot(self, other) ==
    FAdd(FMul(self.x, other.x), FMul(self.y, other.y))

Vector_cross(self, other) ==
    FSub(FMul(self.x, other.y), FMul(self.y, other.x))

Vector_mag(self) == Hypot(self.x, self.y)

Vector_unit(self) ==
    LET m == Vector_mag(self)
    IN  IF FEq(m, 0) THEN Raise("ValueError: Zero vector has no unit vector")
        ELSE Return(Vector_init(FDiv(self.x, m), FDiv(self.y, m)))

Vector_proj_onto(self, other) ==
    LET denom == FAdd(FMul(other.x, other.x), FMul(other.y, other.y))
        k == FDiv(Vector_dot(self, other), denom)
    IN  IF FEq(denom, 0)
        THEN Raise("ValueError: Cannot project onto zero vector")
        ELSE Return(Vector_init(FMul(other.x, k), FMul(other.y, k)))

Vector_to_point(self) == Point_init(self.x, self.y)

\* -------------------------------------------------------------------- Line
\* Line.__init__ with "or" for "and" in its test.
Line_init_or(a, b, c) ==
    IF FEq(a, 0) \/ FEq(b, 0)
    THEN Raise("ValueError: Invalid line coefficients")
    ELSE Return([type |-> "Line", a |-> ToFloat(a), b |-> ToFloat(b),
                 c |-> ToFloat(c)])

Line_init(a, b, c) ==
    IF FEq(a, 0) /\ FEq(b, 0)
    THEN Raise("ValueError: Invalid line coefficients")
    ELSE Return([type |-> "Line", a |-> ToFloat(a), b |-> ToFloat(b),
                 c |-> ToFloat(c)])

Line_from_points(p1, p2) ==
    LET x1 == p1.x
        y1 == p1.y
        x2 == p2.x
        y2 == p2.y
        a == FSub(y1, y2)
        b == FSub(x2, x1)
        c == FSub(FMul(x1, y2), FMul(x2, y1))
    IN  IF FEq(x1, x2) /\ FEq(y1, y2)
        THEN Raise("ValueError: Need two distinct points")
        ELSE Line_init(a, b, c)

\* -c of c = None is a TypeError.
Line_from_slope_intercept(m, c) ==
    IF m = None THEN Raise("ValueError: Use Line.vertical for vertical lines")
    ELSE IF c = None THEN Raise("TypeError: bad operand type for unary -")
    ELSE Line_init(FNeg(m), One, FNeg(c))

Line_vertical(x_const) == Line_init(One, 0, FNeg(ToFloat(x_const)))

Line_slope(self) ==
    IF FEq(self.b, 0) THEN None ELSE FDiv(FNeg(self.a), self.b)

Line_y_intercept(self) ==
    IF FEq(self.b, 0) THEN None ELSE FDiv(FNeg(self.c), self.b)

Line_contains(self, p) ==
    IsCloseZero(FAdd(FAdd(FMul(self.a, p.x), FMul(self.b, p.y)), self.c),
                ContainsTol)

Line_distance_to_point(self, p) ==
    FDiv(FAbs(FAdd(FAdd(FMul(self.a, p.x), FMul(self.b, p.y)), self.c)),
         Hypot(self.a, self.b))

Line_intersection(self, other) ==
    LET D == FSub(FMul(self.a, other.b), FMul(other.a, self.b))
        Dx == FSub(FMul(FNeg(self.c), other.b), FMul(FNeg(other.c), self.b))
        Dy == FSub(FMul(self.a, FNeg(other.c)), FMul(other.a, FNeg(self.c)))
        x == FDiv(Dx, D)
        y == FDiv(Dy, D)
    IN  IF IsCloseZero(D, IntersectionTol) THEN NoneObj ELSE Point_init(x, y)

Line_reflect_point(self, p) == Point_reflect_across_line(p, self)

Line_as_abc(self) == <<self.a, self.b, self.c>>

Line_as_slope_intercept(self) == <<Line_slope(self), Line_y_intercept(self)>>

\* ----------------------------------------------------------- free functions
distance(p1, p2) == Point_distance_to(p1, p2)

midpoint(p1, p2) == Point_midpoint(p1, p2)

line_from_points(p1, p2) == Line_from_points(p1, p2)

\* line_slope_intercept testing "if x_const:", which takes 0 for absent.
line_slope_intercept_truthy(m, c, x_const) ==
    IF x_const # None /\ x_const # 0 THEN Line_vertical(x_const)
    ELSE IF m = None \/ c = None
         THEN Raise("ValueError: Provide m and c for non-vertical line")
    ELSE Line_from_slope_intercept(m, c)

line_slope_intercept(m, c, x_const) ==
    IF x_const # None THEN Line_vertical(x_const)
    ELSE IF m = None \/ c = None
         THEN Raise("ValueError: Provide m and c for non-vertical line")
    ELSE Line_from_slope_intercept(m, c)

\* str.lower() of one character of the selectors' alphabet.
LowerChar(ch) ==
    CASE ch = "X" -> "x"
      [] ch = "Y" -> "y"
      [] ch = "O" -> "o"
      [] ch = "R" -> "r"
      [] ch = "I" -> "i"
      [] ch = "G" -> "g"
      [] ch = "N" -> "n"
      [] ch = "Z" -> "z"
      [] OTHER -> ch

\* str.lower() of a string, held as the sequence of its characters.
Lower(s) == [i \in 1..Len(s) |-> LowerChar(s[i])]

\* reflect_point_across_axes without axis.lower().
reflect_point_across_axes_cased(p, axis) ==
    IF axis = <<"x">> THEN Return(Point_reflect_x(p))
    ELSE IF axis = <<"y">> THEN Return(Point_reflect_y(p))
    ELSE IF axis = <<"o", "r", "i", "g", "i", "n">>
         THEN Return(Point_reflect_origin(p))
    ELSE Raise("ValueError: axis must be 'x', 'y', or 'origin'")

reflect_point_across_axes(p, axis) ==
    LET ax == Lower(axis)
    IN  IF ax = <<"x">> THEN Return(Point_reflect_x(p))
        ELSE IF ax = <<"y">> THEN Return(Point_reflect_y(p))
        ELSE IF ax = <<"o", "r", "i", "g", "i", "n">>
             THEN Return(Point_reflect_origin(p))
        ELSE Raise("ValueError: axis must be 'x', 'y', or 'origin'")

reflect_point_across_line(p, line) == Point_reflect_across_line(p, line)

vector_add(u, v) == Vector_add(u, v)

vector_sub(u, v) == Vector_sub(u, v)

vector_dot(u, v) == Vector_dot(u, v)

vector_cross(u, v) == Vector_cross(u, v)

vector_scale(u, k) == Vector_scale(u, k)

vector_mag(u) == Vector_mag(u)

vector_unit(u) == Vector_unit(u)

vector_proj(u, v) == Vector_proj_onto(u, v)

\* ------------------------------------------------------------------- inputs
\* The floats the caller passes: -1, 0, the integers from 1 to MaxInt, the
\* smallest positive float (its square underflows) and a power of two whose
\* square overflows.
Tiny == One \div Pow2(Frac)
Huge == Pow2((MaxExp + 1) \div 2) * One
Coords ==
    {-One, 0, One, Tiny, Huge} \cup {i * One : i \in 2..MaxInt}
CoordsOrNone == Coords \cup {None}

\* The axis selectors the caller passes, as sequences of characters: every
\* casing of "x", "y" and "origin", and strings that are none of them.
Origin == <<"o", "r", "i", "g", "i", "n">>
UpperChar(ch) ==
    CASE ch = "x" -> "X"
      [] ch = "y" -> "Y"
      [] ch = "o" -> "O"
      [] ch = "r" -> "R"
      [] ch = "i" -> "I"
      [] ch = "g" -> "G"
      [] ch = "n" -> "N"
      [] OTHER -> ch
Casings(s) ==
    {[i \in 1..Len(s) |-> IF i \in U THEN UpperChar(s[i]) ELSE s[i]] :
        U \in SUBSET (1..Len(s))}
Axes ==
    Casings(<<"x">>) \cup Casings(<<"y">>) \cup Casings(Origin)
        \cup {<<>>, <<"z">>, <<"Z">>, <<"x", "y">>, <<"x", " ">>,
              <<"o", "r", "i", "g", "i">>, <<"X", "x">>}

\* -------------------------------------------------------------------- state
\* objs: the objects the caller holds, the operands of its next call.
\* op, args: the last call made and the arguments it took that are no objects.
\* ret: what that call gave back.
VARIABLES objs, op, args, ret

vars == <<objs, op, args, ret>>

Init ==
    /\ objs = <<>>
    /\ op = "init"
    /\ args = <<>>
    /\ ret = Return(None)

\* The caller keeps the object a constructor returns; a constructor that
\* raises creates none.
Keep(r) == IF Raised(r) THEN objs ELSE Append(objs, r.val)

\* The calls that construct an object from numbers.
Constructors ==
    {"Point", "Vector", "Line", "Line.vertical", "Line.from_slope_intercept",
     "line_slope_intercept"}

\* A call that takes no object as an operand and whose result the caller
\* keeps.
Construct(f, a, r) ==
    /\ objs' = Keep(r)
    /\ op' = f
    /\ args' = a
    /\ ret' = r

\* The caller builds the operands of its calls first: it constructs no
\* further object between a call on the objects it holds and a Release, nor
\* after a constructor has raised (CanConstruct, below).

\* A call on the objects the caller holds: none of them is assigned to.
Call(f, a, r) ==
    /\ op' = f
    /\ args' = a
    /\ ret' = r
    /\ UNCHANGED objs

Holds1(t) == Len(objs) = 1 /\ objs[1].type = t
Holds2(t, u) == Len(objs) = 2 /\ objs[1].type = t /\ objs[2].type = u

\* ------------------------------------------------------------- constructors
CanConstruct ==
    /\ Len(objs) < MaxOperands
    /\ op \in Constructors \cup {"init", "del"}
    /\ ~Raised(ret)

NewPoint ==
    /\ CanConstruct
    /\ \E x, y \in Coords :
          Construct("Point", <<x, y>>, Return(Point_init(x, y)))

NewVector ==
    /\ CanConstruct
    /\ \E x, y \in Coords :
          Construct("Vector", <<x, y>>, Return(Vector_init(x, y)))

NewLine ==
    /\ CanConstruct
    /\ \E a, b, c \in Coords :
          Construct("Line", <<a, b, c>>, Line_init(a, b, c))

NewLineVertical ==
    /\ CanConstruct
    /\ \E x_const \in Coords :
          Construct("Line.vertical", <<x_const>>, Line_vertical(x_const))

NewLineFromSlopeIntercept ==
    /\ CanConstruct
    /\ \E m, c \in CoordsOrNone :
          Construct("Line.from_slope_intercept", <<m, c>>,
                    Line_from_slope_intercept(m, c))

NewLineSlopeIntercept ==
    /\ CanConstruct
    /\ \E m, c, x_const \in CoordsOrNone :
          Construct("line_slope_intercept", <<m, c, x_const>>,
                    line_slope_intercept(m, c, x_const))

\* The caller lets go of the object it took last.
Release ==
    /\ Len(objs) > 0
    /\ objs' = SubSeq(objs, 1, Len(objs) - 1)
    /\ op' = "del"
    /\ args' = <<>>
    /\ ret' = Return(None)

\* ------------------------------------------------------------ calls, Point
CallAsTuple ==
    /\ Len(objs) = 1 /\ ~IsLine(objs[1])
    /\ IF IsPoint(objs[1])
       THEN Call("Point.as_tuple", <<>>, Return(Point_as_tuple(objs[1])))
       ELSE Call("Vector.as_tuple", <<>>, Return(Vector_as_tuple(objs[1])))

CallDistance ==
    /\ Holds2("Point", "Point")
    /\ \/ Call("Point.distance_to", <<>>,
               Return(Point_distance_to(objs[1], objs[2])))
       \/ Call("distance", <<>>, Return(distance(objs[1], objs[2])))

CallMidpoint ==
    /\ Holds2("Point", "Point")
    /\ \/ Call("Point.midpoint", <<>>,
               Return(Point_midpoint(objs[1], objs[2])))
       \/ Call("midpoint", <<>>, Return(midpoint(objs[1], objs[2])))

CallTranslate ==
    /\ Holds1("Point")
    /\ \E dx, dy \in Coords :
          Call("Point.translate", <<dx, dy>>,
               Return(Point_translate(objs[1], dx, dy)))

CallToVector ==
    /\ Holds1("Point")
    /\ Call("Point.to_vector", <<>>, Return(Point_to_vector(objs[1])))

\* Point.reflect_x negating self.y in place and returning self.
CallReflectX_in_place ==
    /\ Holds1("Point")
    /\ objs' = <<[objs[1] EXCEPT !.y = FNeg(objs[1].y)]>>
    /\ op' = "Point.reflect_x"
    /\ args' = <<>>
    /\ ret' = Return(objs'[1])

CallReflectX ==
    /\ Holds1("Point")
    /\ Call("Point.reflect_x", <<>>, Return(Point_reflect_x(objs[1])))

CallReflectY ==
    /\ Holds1("Point")
    /\ Call("Point.reflect_y", <<>>, Return(Point_reflect_y(objs[1])))

CallReflectOrigin ==
    /\ Holds1("Point")
    /\ Call("Point.reflect_origin", <<>>,
            Return(Point_reflect_origin(objs[1])))

CallReflectAcrossAxes ==
    /\ Holds1("Point")
    /\ \E axis \in Axes :
          Call("reflect_point_across_axes", <<axis>>,
               reflect_point_across_axes(objs[1], axis))

CallReflectAcrossLine ==
    /\ Holds2("Point", "Line")
    /\ \/ Call("Point.reflect_across_line", <<>>,
               Point_reflect_across_line(objs[1], objs[2]))
       \/ Call("reflect_point_across_line", <<>>,
               reflect_point_across_line(objs[1], objs[2]))

\* ----------------------------------------------------------- calls, Vector
CallAdd ==
    /\ Holds2("Vector", "Vector")
    /\ \/ Call("Vector.add", <<>>, Return(Vector_add(objs[1], objs[2])))
       \/ Call("vector_add", <<>>, Return(vector_add(objs[1], objs[2])))

CallSub ==
    /\ Holds2("Vector", "Vector")
    /\ \/ Call("Vector.sub", <<>>, Return(Vector_sub(objs[1], objs[2])))
       \/ Call("vector_sub", <<>>, Return(vector_sub(objs[1], objs[2])))

CallScale ==
    /\ Holds1("Vector")
    /\ \E k \in Coords :
          \/ Call("Vector.scale", <<k>>, Return(Vector_scale(objs[1], k)))
          \/ Call("vector_scale", <<k>>, Return(vector_scale(objs[1], k)))

CallDot ==
    /\ Holds2("Vector", "Vector")
    /\ \/ Call("Vector.dot", <<>>, Return(Vector_dot(objs[1], objs[2])))
       \/ Call("vector_dot", <<>>, Return(vector_dot(objs[1], objs[2])))

CallCross ==
    /\ Holds2("Vector", "Vector")
    /\ \/ Call("Vector.cross", <<>>, Return(Vector_cross(objs[1], objs[2])))
       \/ Call("vector_cross", <<>>, Return(vector_cross(objs[1], objs[2])))

CallMag ==
    /\ Holds1("Vector")
    /\ \/ Call("Vector.mag", <<>>, Return(Vector_mag(objs[1])))
       \/ Call("vector_mag", <<>>, Return(vector_mag(objs[1])))

CallUnit ==
    /\ Holds1("Vector")
    /\ \/ Call("Vector.unit", <<>>, Vector_unit(objs[1]))
       \/ Call("vector_unit", <<>>, vector_unit(objs[1]))

CallProjOnto ==
    /\ Holds2("Vector", "Vector")
    /\ \/ Call("Vector.proj_onto", <<>>, Vector_proj_onto(objs[1], objs[2]))
       \/ Call("vector_proj", <<>>, vector_proj(objs[1], objs[2]))

CallToPoint ==
    /\ Holds1("Vector")
    /\ Call("Vector.to_point", <<>>, Return(Vector_to_point(objs[1])))

\* ------------------------------------------------------------- calls, Line
CallFromPoints ==
    /\ Holds2("Point", "Point")
    /\ \/ Call("Line.from_points", <<>>, Line_from_points(objs[1], objs[2]))
       \/ Call("line_from_points", <<>>, line_from_points(objs[1], objs[2]))

\* The same Point passed as both arguments.
CallFromPointsSame ==
    /\ Holds1("Point")
    /\ Call("Line.from_points", <<>>, Line_from_points(objs[1], objs[1]))

CallSlope ==
    /\ Holds1("Line")
    /\ Call("Line.slope", <<>>, Return(Line_slope(objs[1])))

CallYIntercept ==
    /\ Holds1("Line")
    /\ Call("Line.y_intercept", <<>>, Return(Line_y_intercept(objs[1])))

CallContains ==
    /\ Holds2("Line", "Point")
    /\ Call("Line.contains", <<>>, Return(Line_contains(objs[1], objs[2])))

CallDistanceToPoint ==
    /\ Holds2("Line", "Point")
    /\ Call("Line.distance_to_point", <<>>,
            Return(Line_distance_to_point(objs[1], objs[2])))

CallIntersection ==
    /\ Holds2("Line", "Line")
    /\ Call("Line.intersection", <<>>,
            Return(Line_intersection(objs[1], objs[2])))

\* A line intersected with itself.
CallIntersectionSame ==
    /\ Holds1("Line")
    /\ Call("Line.intersection", <<>>,
            Return(Line_intersection(objs[1], objs[1])))

CallReflectPoint ==
    /\ Holds2("Line", "Point")
    /\ Call("Line.reflect_point", <<>>, Line_reflect_point(objs[1], objs[2]))

CallAsAbc ==
    /\ Holds1("Line")
    /\ Call("Line.as_abc", <<>>, Return(Line_as_abc(objs[1])))

CallAsSlopeIntercept ==
    /\ Holds1("Line")
    /\ Call("Line.as_slope_intercept", <<>>,
            Return(Line_as_slope_intercept(objs[1])))

\* ---------------------------------------------------------------- behaviour
Next ==
    \/ NewPoint
    \/ NewVector
    \/ NewLine
    \/ NewLineVertical
    \/ NewLineFromSlopeIntercept
    \/ NewLineSlopeIntercept
    \/ Release
    \/ CallAsTuple
    \/ CallDistance
    \/ CallMidpoint
    \/ CallTranslate
    \/ CallToVector
    \/ CallReflectX
    \/ CallReflectY
    \/ CallReflectOrigin
    \/ CallReflectAcrossAxes
    \/ CallReflectAcrossLine
    \/ CallAdd
    \/ CallSub
    \/ CallScale
    \/ CallDot
    \/ CallCross
    \/ CallMag
    \/ CallUnit
    \/ CallProjOnto
    \/ CallToPoint
    \/ CallFromPoints
    \/ CallFromPointsSame
    \/ CallSlope
    \/ CallYIntercept
    \/ CallContains
    \/ CallDistanceToPoint
    \/ CallIntersection
    \/ CallIntersectionSame
    \/ CallReflectPoint
    \/ CallAsAbc
    \/ CallAsSlopeIntercept

Spec == Init /\ [][Next]_vars

\* ------------------------------------------------------------------- claims
FromPointsOps == {"Line.from_points", "line_from_points"}
ReflectLineOps ==
    {"Point.reflect_across_line", "reflect_point_across_line",
     "Line.reflect_point"}
InvalidCoefficients == "ValueError: Invalid line coefficients"
NotBothZero(l) == ~(l.a = 0 /\ l.b = 0)

\* The two points of the last from_points call.
FromP == objs[1]
FromQ == objs[Len(objs)]
SamePoint(p, q) == FEq(p.x, q.x) /\ FEq(p.y, q.y)

C6_SlopeInterceptDispatch ==
    op = "line_slope_intercept" =>
        LET m == args[1]
            c == args[2]
            x_const == args[3]
        IN  IF x_const # None
            THEN ret = Return([type |-> "Line", a |-> One, b |-> 0,
                               c |-> FNeg(x_const)])
            ELSE IF m # None /\ c # None
            THEN ret = Return([type |-> "Line", a |-> FNeg(m), b |-> One,
                               c |-> FNeg(c)])
            ELSE ret = Raise("ValueError: Provide m and c for non-vertical line")

\* line_slope_intercept(m, c, 0) with m and c supplied has returned a Line.
C6_Witness ==
    /\ op = "line_slope_intercept"
    /\ args[3] = 0 /\ args[1] # None /\ args[2] # None
    /\ ~Raised(ret)

\* C8: reflect_point_across_axes(p, axis) returns (x, -y) for any casing of
\* "x", (-x, y) for any casing of "y", (-x, -y) for any casing of "origin",
\* raises the invalid-axis error and returns no Point for any other string,
\* and applied twice with the same valid selector gives back p exactly.
C8_AxesDispatch ==
    op = "reflect_point_across_axes" =>
        LET p == objs[1]
            axis == args[1]
            pt(x, y) == [type |-> "Point", x |-> x, y |-> y]
        IN  /\ axis \in Casings(<<"x">>) => ret = Return(pt(p.x, FNeg(p.y)))
            /\ axis \in Casings(<<"y">>) => ret = Return(pt(FNeg(p.x), p.y))
            /\ axis \in Casings(Origin) =>
                 ret = Return(pt(FNeg(p.x), FNeg(p.y)))
            /\ axis \notin Casings(<<"x">>) \cup Casings(<<"y">>)
                              \cup Casings(Origin) =>
                 ret = Raise("ValueError: axis must be 'x', 'y', or 'origin'")
            /\ ~Raised(ret) =>
                 reflect_point_across_axes(ret.val, axis) = Return(p)

\* A Point off both axes has been reflected with the selector "OrIgiN".
C8_Witness ==
    /\ op = "reflect_point_across_axes"
    /\ args[1] = <<"O", "r", "I", "g", "i", "N">>
    /\ objs[1].x # 0 /\ objs[1].y # 0
    /\ ~Raised(ret)

\* C9: no call changes an object that exists: every object the caller holds
\* before a step and still holds after it has the same fields.
C9_NoMutation ==
    [][\A i \in 1..Len(objs) : i <= Len(objs') => objs'[i] = objs[i]]_vars

\* A Point has been reflected across a Line into a Point that differs from it,
\* both still held by the caller.
C9_Witness ==
    /\ op = "Point.reflect_across_line"
    /\ Len(objs) = 2
    /\ ~Raised(ret)
    /\ ret.val # objs[1]

\* The determinant a1*b2 - a2*b1 of two lines with finite coefficients, in
\* exact arithmetic.
Det(l1, l2) == l1.a * l2.b - l2.a * l1.b

\* C2: Line.from_points of two points that differ succeeds with a Line that
\* contains both; of two equal points it raises the need-distinct-points
\* error and returns no Line.
C2_FromPointsContains ==
    op \in FromPointsOps =>
        IF SamePoint(FromP, FromQ)
        THEN ret = Raise("ValueError: Need two distinct points")
        ELSE /\ ~Raised(ret)
             /\ Line_contains(ret.val, FromP)
             /\ Line_contains(ret.val, FromQ)

\* C3: the intersection of two lines whose determinant is not zero is a
\* Point that both lines contain, the same Point in either order.
C3_IntersectionOnBoth ==
    (op = "Line.intersection" /\ Det(objs[1], objs[Len(objs)]) # 0) =>
        LET l1 == objs[1]
            l2 == objs[Len(objs)]
        IN  /\ IsPoint(ret.val)
            /\ Line_contains(l1, ret.val)
            /\ Line_contains(l2, ret.val)
            /\ Line_intersection(l2, l1) = ret.val

\* C4: the intersection of two lines whose determinant is zero (parallel or
\* coincident lines, a line with itself) is None, never a Point.
C4_ParallelNone ==
    (op = "Line.intersection" /\ Det(objs[1], objs[Len(objs)]) = 0) =>
        ret = Return(NoneObj)

\* C5: reflecting a Point across a Line twice gives back the Point, through
\* any of the three entry points, which agree.
C5_ReflectInvolution ==
    op \in ReflectLineOps =>
        LET p == IF op = "Line.reflect_point" THEN objs[2] ELSE objs[1]
            line == IF op = "Line.reflect_point" THEN objs[1] ELSE objs[2]
        IN  /\ ~Raised(ret)
            /\ Point_reflect_across_line(ret.val, line) = Return(p)
            /\ ret = Point_reflect_across_line(p, line)
            /\ ret = Line_reflect_point(line, p)
            /\ ret = reflect_point_across_line(p, line)

\* C7: unit() raises the zero-vector error exactly for the vector (0, 0);
\* u.proj_onto(v) raises it exactly when v is (0, 0), and otherwise returns
\* v scaled by dot(u, v) / |v|^2.
C7_ZeroVectorOnly ==
    /\ op \in {"Vector.unit", "vector_unit"} =>
         /\ Raised(ret) <=> (objs[1].x = 0 /\ objs[1].y = 0)
         /\ Raised(ret) =>
              ret = Raise("ValueError: Zero vector has no unit vector")
    /\ op \in {"Vector.proj_onto", "vector_proj"} =>
         LET u == objs[1]
             v == objs[2]
             k == FDiv(Vector_dot(u, v),
                       FAdd(FMul(v.x, v.x), FMul(v.y, v.y)))
         IN  /\ Raised(ret) <=> (v.x = 0 /\ v.y = 0)
             /\ Raised(ret) =>
                  ret = Raise("ValueError: Cannot project onto zero vector")
             /\ ~Raised(ret) => ret.val = Vector_scale(v, k)

\* C10: reflecting a Point across a Line the constructors returned never
\* raises the invalid-line error: it returns a Point.  That holds for the
\* Lines the caller holds and for the Line that Line.from_points returns,
\* across which either of its two points is reflected.
C10_InvalidLineUnreachable ==
    /\ op \in ReflectLineOps => ~Raised(ret) /\ IsPoint(ret.val)
    /\ (op \in FromPointsOps /\ ~Raised(ret)) =>
         /\ ~Raised(Point_reflect_across_line(FromP, ret.val))
         /\ ~Raised(Point_reflect_across_line(FromQ, ret.val))

=============================================================================
